---- MODULE Spec2Model ----
(***************************************************************************)
(* The verification pipeline of src/pages/EmployerVerifier.tsx.            *)
(*                                                                         *)
(* The component state (vcInput, vc, status, steps, isLoading) is the      *)
(* React state of lines 16-20.  runVerification is an async function: it   *)
(* runs to completion between awaits, so every action below is one         *)
(* synchronous segment of it (from an event or a settled promise up to the *)
(* next await or return), with all the setState calls of that segment.     *)
(* runs[r] holds the locals of one invocation of runVerification, its      *)
(* position, and a record of what it called and wrote.  writer is a        *)
(* history variable: the invocation whose setSteps call produced the       *)
(* current steps, 0 when resetState (or the initial state) did.  lookups   *)
(* is the registry's side of isRevoked: the keys it was asked about, each  *)
(* with the proof of the credential the key was computed for.              *)
(***************************************************************************)
EXTENDS Integers, Sequences, FiniteSets, TLC

VARIABLES vcInput, vc, status, steps, isLoading, runs, writer, lookups

vars == <<vcInput, vc, status, steps, isLoading, runs, writer, lookups>>

\* Number of invocations of runVerification that are tracked at one time.
MaxRuns == 2

Slots == 1..MaxRuns

(***************************************************************************)
(* Values                                                                  *)
(***************************************************************************)

\* JS null: the initial value of vc, and what JSON.parse("null") returns.
Null == [kind |-> "null", issuer |-> "", subject |-> "", proof |-> ""]

\* What JSON.parse("42") returns.
Number42 == [kind |-> "number", issuer |-> "", subject |-> "", proof |-> ""]

\* A parsed credential: issuer, credentialSubject and the detachable proof.
Credential(p) == [kind |-> "vc", issuer |-> "did:ex:uni", subject |-> "alice", proof |-> p]

\* The proof blocks of the credentials that are pasted in.
Proofs == {"sigAB", "sigNoAddr", "corrupt", "malformed", "unsupported"}

\* The texts the user pastes or imports.
Texts == {"", "{not json", "null", "42"} \cup {"vc:" \o p : p \in Proofs}

\* JSON.parse: throws (ok = FALSE) or returns the parsed value.
JSONParse(text) ==
    CASE text = "null" -> [ok |-> TRUE, value |-> Null]
      [] text = "42" -> [ok |-> TRUE, value |-> Number42]
      [] text = "vc:sigAB" -> [ok |-> TRUE, value |-> Credential("sigAB")]
      [] text = "vc:sigNoAddr" -> [ok |-> TRUE, value |-> Credential("sigNoAddr")]
      [] text = "vc:corrupt" -> [ok |-> TRUE, value |-> Credential("corrupt")]
      [] text = "vc:malformed" -> [ok |-> TRUE, value |-> Credential("malformed")]
      [] text = "vc:unsupported" -> [ok |-> TRUE, value |-> Credential("unsupported")]
      [] OTHER -> [ok |-> FALSE, value |-> Null]

\* The absent recoveredAddress (JS undefined).
Undefined == "undefined"

\* Identities the registry may return; two of them differ only in letter case.
Addrs == {"0xAB", "0xab", "0xCD"}

\* String.prototype.toLowerCase on the identities above.
toLowerCase(a) ==
    CASE a = "0xAB" -> "0xab"
      [] a = "0xCD" -> "0xcd"
      [] OTHER -> a

\* verifyVCSignature of ../utils/crypto: every failure is a value, valid = FALSE.
verifyVCSignature(v) ==
    IF v.kind # "vc"
      THEN [valid |-> FALSE, reason |-> "Not a credential object.", recoveredAddress |-> Undefined]
      ELSE CASE v.proof = "sigAB" ->
                  [valid |-> TRUE, reason |-> "Signature is valid.", recoveredAddress |-> "0xAB"]
             [] v.proof = "sigNoAddr" ->
                  [valid |-> TRUE, reason |-> "Signature is valid.", recoveredAddress |-> Undefined]
             [] v.proof = "corrupt" ->
                  [valid |-> FALSE, reason |-> "Signature does not match payload.", recoveredAddress |-> Undefined]
             [] v.proof = "unsupported" ->
                  [valid |-> FALSE, reason |-> "Unsupported signature scheme.", recoveredAddress |-> Undefined]
             [] OTHER ->
                  [valid |-> FALSE, reason |-> "Malformed proof.", recoveredAddress |-> Undefined]

\* Faulty variant: the proof is not stripped.
vcWithoutProof_KeepsProof(v) == v

\* const { proof, ...vcWithoutProof } = parsedVc
vcWithoutProof(v) == [kind |-> v.kind, issuer |-> v.issuer, subject |-> v.subject]

\* canonicalizeVC of ../utils/crypto: a deterministic serialization of every
\* field it is given, independent of the order of the keys.
canonicalizeVC(w) == {<<k, w[k]>> : k \in DOMAIN w}

\* computeCredentialHash of ../utils/crypto: a fingerprint of the canonical form.
computeCredentialHash(c) == <<"hash", c>>

(***************************************************************************)
(* Steps                                                                   *)
(***************************************************************************)

Step(n, s, m) == [name |-> n, status |-> s, message |-> m]

ParseFailureStep == Step("Parse JSON", "failure", <<"Input is not valid JSON.">>)

SignatureStep(sig) ==
    Step("Cryptographic Signature", IF sig.valid THEN "success" ELSE "failure", <<sig.reason>>)

ControllerPendingStep ==
    Step("Issuer DID Control", "pending", <<"Checking if issuer controls DID on-chain...">>)

RevocationPendingStep ==
    Step("Revocation Status", "pending", <<"Checking on-chain revocation list...">>)

(***************************************************************************)
(* Runs                                                                    *)
(***************************************************************************)

NoSig == [valid |-> FALSE, reason |-> "", recoveredAddress |-> Undefined]

NoResult == [kind |-> "none", value |-> ""]

\* A slot no invocation uses.
BlankRun ==
    [pc |-> "idle", parseOk |-> FALSE, parsedVc |-> Null, sig |-> NoSig, verificationSteps |-> <<>>,
     gc |-> NoResult, ir |-> NoResult, calls |-> <<>>, hash |-> <<>>,
     threw |-> "", wrote |-> "idle", prior |-> 0, abandoned |-> FALSE]

InFlight(r) == runs[r].pc \in {"awaitGC", "awaitIR"}

Called(r, fn) == \E i \in 1..Len(runs[r].calls) : runs[r].calls[i] = fn

\* What a registry call settles to: a value, or a rejection with its message.
Resolved(x) == [kind |-> "resolved", value |-> x]

Rejected(m) == [kind |-> "rejected", value |-> m]

GetControllerResults == {Resolved(a) : a \in Addrs} \cup {Rejected("network error")}

IsRevokedResults == {Resolved("true"), Resolved("false"), Rejected("network error")}

\* The helpers that can throw before isRevoked is called (lines 106-107).
Throwers == {"canonicalizeVC", "computeCredentialHash"}

Init ==
    /\ vcInput = ""
    /\ vc = Null
    /\ status = "idle"
    /\ steps = <<>>
    /\ isLoading = FALSE
    /\ runs = [r \in Slots |-> BlankRun]
    /\ writer = 0
    /\ lookups = {}

(***************************************************************************)
(* Editing the input                                                       *)
(***************************************************************************)

\* Faulty variant: resetState also re-enables the Verify button.
resetState_ClearsLoading ==
    /\ status' = "idle"
    /\ steps' = <<>>
    /\ vc' = Null
    /\ isLoading' = FALSE

resetState ==
    /\ status' = "idle"
    /\ steps' = <<>>
    /\ vc' = Null
    /\ UNCHANGED isLoading

\* The textarea's onChange, and the FileReader's onload of handleFileImport.
\* A run suspended at a network call is marked as abandoned by this edit.
handleVcInputChange(text) ==
    /\ vcInput' = text
    /\ resetState
    /\ writer' = 0
    /\ UNCHANGED lookups
    /\ runs' = [r \in Slots |->
                  IF InFlight(r) THEN [runs[r] EXCEPT !.abandoned = TRUE] ELSE runs[r]]

(***************************************************************************)
(* runVerification, first segment: from the click to the first await       *)
(***************************************************************************)

\* The invocation takes slot r; the records of finished invocations are dropped.
\* prior records how many steps were displayed when the button was clicked.
StartRun(r, rec) ==
    /\ runs' = [q \in Slots |->
                  IF q = r THEN [rec EXCEPT !.prior = Len(steps)]
                  ELSE IF runs[q].pc = "done" THEN BlankRun ELSE runs[q]]
    /\ writer' = r
    /\ UNCHANGED lookups

\* Faulty variant: the parse-failure step is appended to the displayed steps.
ParseFailure_Appends(r) ==
    /\ status' = "error"
    /\ steps' = Append(steps, ParseFailureStep)
    /\ isLoading' = FALSE
    /\ UNCHANGED vc
    /\ StartRun(r, [BlankRun EXCEPT !.pc = "done", !.wrote = "error"])

\* Lines 48-49 and 54-58: JSON.parse threw.
ParseFailure(r) ==
    /\ status' = "error"
    /\ steps' = <<ParseFailureStep>>
    /\ isLoading' = FALSE
    /\ UNCHANGED vc
    /\ StartRun(r, [BlankRun EXCEPT !.pc = "done", !.wrote = "error"])

\* Faulty variant: setStatus('invalid') of line 73 is missing.
SignatureFailure_NoStatus(r, v, sig) ==
    /\ vc' = v
    /\ steps' = <<SignatureStep(sig)>>
    /\ status' = "verifying"
    /\ isLoading' = FALSE
    /\ StartRun(r, [BlankRun EXCEPT !.pc = "done", !.parseOk = TRUE, !.parsedVc = v,
                        !.sig = sig, !.verificationSteps = <<SignatureStep(sig)>>,
                        !.calls = <<"verifyVCSignature">>, !.wrote = "verifying"])

\* Faulty variant: setIsLoading(false) of line 74 is missing.
SignatureFailure_StillLoading(r, v, sig) ==
    /\ vc' = v
    /\ steps' = <<SignatureStep(sig)>>
    /\ status' = "invalid"
    /\ isLoading' = TRUE
    /\ StartRun(r, [BlankRun EXCEPT !.pc = "done", !.parseOk = TRUE, !.parsedVc = v,
                        !.sig = sig, !.verificationSteps = <<SignatureStep(sig)>>,
                        !.calls = <<"verifyVCSignature">>, !.wrote = "invalid"])

\* Lines 48-53 and 61-76: the signature is not valid.
SignatureFailure(r, v, sig) ==
    /\ vc' = v
    /\ steps' = <<SignatureStep(sig)>>
    /\ status' = "invalid"
    /\ isLoading' = FALSE
    /\ StartRun(r, [BlankRun EXCEPT !.pc = "done", !.parseOk = TRUE, !.parsedVc = v,
                        !.sig = sig, !.verificationSteps = <<SignatureStep(sig)>>,
                        !.calls = <<"verifyVCSignature">>, !.wrote = "invalid"])

\* Faulty variant: setSteps of line 81 is missing, the placeholder is not published.
SignatureSuccess_NoPlaceholder(r, v, sig) ==
    /\ vc' = v
    /\ steps' = <<SignatureStep(sig)>>
    /\ status' = "verifying"
    /\ isLoading' = TRUE
    /\ StartRun(r, [BlankRun EXCEPT !.pc = "awaitGC", !.parseOk = TRUE, !.parsedVc = v,
                        !.sig = sig,
                        !.verificationSteps = <<SignatureStep(sig), ControllerPendingStep>>,
                        !.calls = <<"verifyVCSignature", "getController">>,
                        !.wrote = "verifying"])

\* Lines 48-53 and 61-84: the signature is valid; getController is called.
SignatureSuccess(r, v, sig) ==
    /\ vc' = v
    /\ steps' = <<SignatureStep(sig), ControllerPendingStep>>
    /\ status' = "verifying"
    /\ isLoading' = TRUE
    /\ StartRun(r, [BlankRun EXCEPT !.pc = "awaitGC", !.parseOk = TRUE, !.parsedVc = v,
                        !.sig = sig,
                        !.verificationSteps = <<SignatureStep(sig), ControllerPendingStep>>,
                        !.calls = <<"verifyVCSignature", "getController">>,
                        !.wrote = "verifying"])

\* The Verify button is enabled (line 166) and is clicked.
CanStart == ~isLoading /\ vcInput # ""

FreeSlots == {q \in Slots : ~InFlight(q)}

\* Faulty variant: the early return of lines 72-76 is missing.
runVerification_NoShortCircuit(r) ==
    /\ CanStart
    /\ r \in FreeSlots
    /\ \A q \in FreeSlots : r <= q
    /\ UNCHANGED vcInput
    /\ LET p == JSONParse(vcInput)
           sig == verifyVCSignature(p.value)
       IN  IF ~p.ok THEN ParseFailure(r)
           ELSE SignatureSuccess(r, p.value, sig)

runVerification(r) ==
    /\ CanStart
    /\ r \in FreeSlots
    /\ \A q \in FreeSlots : r <= q
    /\ UNCHANGED vcInput
    /\ LET p == JSONParse(vcInput)
           sig == verifyVCSignature(p.value)
       IN  IF ~p.ok THEN ParseFailure(r)
           ELSE IF ~sig.valid THEN SignatureFailure(r, p.value, sig)
           ELSE SignatureSuccess(r, p.value, sig)

(***************************************************************************)
(* runVerification, second segment: getController has settled              *)
(***************************************************************************)

\* Faulty variant: the identities are compared without toLowerCase.
ControllerStep_CaseSensitive(res, sig) ==
    IF res.kind = "resolved"
      THEN IF res.value = sig.recoveredAddress
             THEN Step("Issuer DID Control", "success",
                       <<"On-chain controller (", res.value,
                         ") matches the credential signer.">>)
             ELSE Step("Issuer DID Control", "warning",
                       <<"On-chain controller (", res.value,
                         ") does not match signer (", sig.recoveredAddress, ").">>)
      ELSE Step("Issuer DID Control", "warning",
                <<"Could not verify issuer DID controller on-chain. The DID may not be registered.">>)

\* Lines 84-96: the Issuer DID Control step after the call settled.
ControllerStep(res, sig) ==
    LET signerAddress == sig.recoveredAddress
        signerLower == IF signerAddress = Undefined THEN Undefined
                       ELSE toLowerCase(signerAddress)
    IN  IF res.kind = "resolved"
          THEN IF toLowerCase(res.value) = signerLower
                 THEN Step("Issuer DID Control", "success",
                           <<"On-chain controller (", res.value,
                             ") matches the credential signer.">>)
                 ELSE Step("Issuer DID Control", "warning",
                           <<"On-chain controller (", res.value,
                             ") does not match signer (", signerAddress,
                             "). Credential may be valid but issuer DID is not registered or controller has changed.">>)
          ELSE Step("Issuer DID Control", "warning",
                    <<"Could not verify issuer DID controller on-chain. The DID may not be registered.">>)

\* Faulty variant: the updated controller step is put in front of the log.
AfterController_Reorders(r, res) ==
    <<ControllerStep(res, runs[r].sig), runs[r].verificationSteps[1], RevocationPendingStep>>

\* verificationSteps after lines 84-101.
AfterController(r, res) ==
    Append([runs[r].verificationSteps EXCEPT ![2] = ControllerStep(res, runs[r].sig)],
           RevocationPendingStep)

\* Lines 105-107: the key that is passed to isRevoked.
RevocationKey(v) == computeCredentialHash(canonicalizeVC(vcWithoutProof(v)))

\* Faulty variant: isLoading is cleared before isRevoked is awaited.
RevocationLookupStart_Unlocks(r, res) ==
    /\ steps' = AfterController(r, res)
    /\ isLoading' = FALSE
    /\ UNCHANGED <<status, vc>>
    /\ writer' = r
    /\ lookups' = lookups \cup {[proof |-> runs[r].parsedVc.proof,
                                  key |-> RevocationKey(runs[r].parsedVc)]}
    /\ runs' = [runs EXCEPT ![r].pc = "awaitIR", ![r].gc = res,
                            ![r].verificationSteps = AfterController(r, res),
                            ![r].hash = RevocationKey(runs[r].parsedVc),
                            ![r].calls = @ \o <<"canonicalizeVC", "computeCredentialHash",
                                                "isRevoked">>]

\* Lines 97-108: the proof is stripped, the rest hashed, isRevoked is called.
RevocationLookupStart(r, res) ==
    /\ steps' = AfterController(r, res)
    /\ UNCHANGED <<status, isLoading, vc>>
    /\ writer' = r
    /\ lookups' = lookups \cup {[proof |-> runs[r].parsedVc.proof,
                                  key |-> RevocationKey(runs[r].parsedVc)]}
    /\ runs' = [runs EXCEPT ![r].pc = "awaitIR", ![r].gc = res,
                            ![r].verificationSteps = AfterController(r, res),
                            ![r].hash = RevocationKey(runs[r].parsedVc),
                            ![r].calls = @ \o <<"canonicalizeVC", "computeCredentialHash",
                                                "isRevoked">>]

\* The Revocation Status step of the catch block, lines 121-124.
RevocationWarningStep(m) ==
    Step("Revocation Status", "warning", <<"Could not check revocation status: ", m>>)

\* Faulty variant: a failure to compute the fingerprint ends the run as an error.
RevocationPrepareThrows_FailClosed(r, res, thrower) ==
    LET vs == [AfterController(r, res) EXCEPT ![3] =
                  Step("Revocation Status", "failure", <<thrower>>)]
    IN  /\ steps' = vs
        /\ status' = "error"
        /\ isLoading' = FALSE
        /\ UNCHANGED <<vc, lookups>>
        /\ writer' = r
        /\ runs' = [runs EXCEPT ![r].pc = "done", ![r].gc = res,
                                ![r].verificationSteps = vs, ![r].threw = thrower,
                                ![r].calls = @ \o <<"canonicalizeVC">>,
                                ![r].wrote = "error"]

\* Lines 97-107 and 121-128: canonicalizeVC or computeCredentialHash threw.
RevocationPrepareThrows(r, res, thrower) ==
    LET vs == [AfterController(r, res) EXCEPT ![3] = RevocationWarningStep(thrower)]
    IN  /\ steps' = vs
        /\ status' = "valid"
        /\ isLoading' = FALSE
        /\ UNCHANGED <<vc, lookups>>
        /\ writer' = r
        /\ runs' = [runs EXCEPT ![r].pc = "done", ![r].gc = res,
                                ![r].verificationSteps = vs, ![r].threw = thrower,
                                ![r].calls = @ \o (IF thrower = "canonicalizeVC"
                                                     THEN <<"canonicalizeVC">>
                                                     ELSE <<"canonicalizeVC",
                                                            "computeCredentialHash">>),
                                ![r].wrote = "valid"]

\* Faulty variant: a rejected getController ends the run as invalid.
getControllerSettles_FailClosed(r, res) ==
    /\ runs[r].pc = "awaitGC"
    /\ UNCHANGED vcInput
    /\ IF res.kind = "rejected"
         THEN /\ steps' = [runs[r].verificationSteps EXCEPT ![2] = ControllerStep(res, runs[r].sig)]
              /\ status' = "invalid"
              /\ isLoading' = FALSE
              /\ UNCHANGED <<vc, lookups>>
              /\ writer' = r
              /\ runs' = [runs EXCEPT ![r].pc = "done", ![r].gc = res,
                                      ![r].verificationSteps = steps',
                                      ![r].wrote = "invalid"]
         ELSE \/ RevocationLookupStart(r, res)
              \/ \E thrower \in Throwers : RevocationPrepareThrows(r, res, thrower)

getControllerSettles(r, res) ==
    /\ runs[r].pc = "awaitGC"
    /\ UNCHANGED vcInput
    /\ \/ RevocationLookupStart(r, res)
       \/ \E thrower \in Throwers : RevocationPrepareThrows(r, res, thrower)

(***************************************************************************)
(* runVerification, third segment: isRevoked has settled                   *)
(***************************************************************************)

\* Faulty variant: the return of line 116 is missing, lines 126-128 run as well.
Revoked_FallsThrough(r, res) ==
    LET vs == [runs[r].verificationSteps EXCEPT ![3] =
                  Step("Revocation Status", "failure",
                       <<"This credential has been revoked by the issuer.">>)]
    IN  /\ steps' = vs
        /\ status' = "valid"
        /\ isLoading' = FALSE
        /\ UNCHANGED <<vc, lookups>>
        /\ writer' = r
        /\ runs' = [runs EXCEPT ![r].pc = "done", ![r].ir = res,
                                ![r].verificationSteps = vs, ![r].wrote = "valid"]

\* Lines 110-116: the credential is on the revocation list.
Revoked(r, res) ==
    LET vs == [runs[r].verificationSteps EXCEPT ![3] =
                  Step("Revocation Status", "failure",
                       <<"This credential has been revoked by the issuer.">>)]
    IN  /\ steps' = vs
        /\ status' = "revoked"
        /\ isLoading' = FALSE
        /\ UNCHANGED <<vc, lookups>>
        /\ writer' = r
        /\ runs' = [runs EXCEPT ![r].pc = "done", ![r].ir = res,
                                ![r].verificationSteps = vs, ![r].wrote = "revoked"]

\* Lines 117-120 and 126-128: the credential is not on the revocation list.
NotRevoked(r, res) ==
    LET vs == [runs[r].verificationSteps EXCEPT ![3] =
                  Step("Revocation Status", "success",
                       <<"Credential is not on the revocation list.">>)]
    IN  /\ steps' = vs
        /\ status' = "valid"
        /\ isLoading' = FALSE
        /\ UNCHANGED <<vc, lookups>>
        /\ writer' = r
        /\ runs' = [runs EXCEPT ![r].pc = "done", ![r].ir = res,
                                ![r].verificationSteps = vs, ![r].wrote = "valid"]

\* Faulty variant: the catch leaves the pending placeholder as it is.
LookupRejected_LeavesPending(r, res) ==
    /\ steps' = runs[r].verificationSteps
    /\ status' = "valid"
    /\ isLoading' = FALSE
    /\ UNCHANGED <<vc, lookups>>
    /\ writer' = r
    /\ runs' = [runs EXCEPT ![r].pc = "done", ![r].ir = res, ![r].wrote = "valid"]

\* Faulty variant: there is no catch, the rejection ends the invocation.
LookupRejected_Escapes(r, res) ==
    /\ UNCHANGED <<steps, status, isLoading, vc, writer, lookups>>
    /\ runs' = [runs EXCEPT ![r].pc = "done", ![r].ir = res]

\* Lines 121-128: isRevoked rejected.
LookupRejected(r, res) ==
    LET vs == [runs[r].verificationSteps EXCEPT ![3] = RevocationWarningStep(res.value)]
    IN  /\ steps' = vs
        /\ status' = "valid"
        /\ isLoading' = FALSE
        /\ UNCHANGED <<vc, lookups>>
        /\ writer' = r
        /\ runs' = [runs EXCEPT ![r].pc = "done", ![r].ir = res,
                                ![r].verificationSteps = vs, ![r].wrote = "valid"]

isRevokedSettles(r, res) ==
    /\ runs[r].pc = "awaitIR"
    /\ UNCHANGED vcInput
    /\ IF res.kind = "rejected" THEN LookupRejected(r, res)
       ELSE IF res.value = "true" THEN Revoked(r, res)
       ELSE NotRevoked(r, res)

(***************************************************************************)
(* Specifications                                                          *)
(***************************************************************************)

Edit == \E text \in Texts : handleVcInputChange(text)

Verify == \E r \in Slots : runVerification(r)

ControllerSettles == \E r \in Slots : \E res \in GetControllerResults : getControllerSettles(r, res)

RevocationSettles == \E r \in Slots : \E res \in IsRevokedResults : isRevokedSettles(r, res)

Next == Edit \/ Verify \/ ControllerSettles \/ RevocationSettles

Spec == Init /\ [][Next]_vars

\* Every registry call settles: its promise resolves or rejects.
LiveSpec == Spec /\ WF_vars(ControllerSettles) /\ WF_vars(RevocationSettles)

(***************************************************************************)
(* Properties                                                              *)
(***************************************************************************)

Started(r) == runs[r].pc # "idle"

Done(r) == runs[r].pc = "done"

SignatureRejected(r) == Started(r) /\ runs[r].parseOk /\ ~runs[r].sig.valid

LastStep(sq) == sq[Len(sq)]

\* C1: a run whose signature check returned valid = FALSE never calls
\* getController or isRevoked, ends with the outcome 'invalid', and its step
\* log is the single step (Cryptographic Signature, failure).
C1_SignatureShortCircuit ==
    \A r \in Slots : SignatureRejected(r) =>
        /\ ~Called(r, "getController")
        /\ ~Called(r, "isRevoked")
        /\ Done(r)
        /\ runs[r].wrote = "invalid"
        /\ Len(runs[r].verificationSteps) = 1
        /\ runs[r].verificationSteps[1].name = "Cryptographic Signature"
        /\ runs[r].verificationSteps[1].status = "failure"
        /\ \A i \in 1..Len(runs[r].verificationSteps) :
              runs[r].verificationSteps[i].name
                 \notin {"Issuer DID Control", "Revocation Status"}
        /\ writer = r => status = "invalid" /\ steps = runs[r].verificationSteps

\* C1 witness: a run on a credential with a corrupted proof has ended.
C1_Witness ==
    \E r \in Slots : SignatureRejected(r) /\ Done(r) /\ writer = r
                        /\ runs[r].parsedVc = Credential("corrupt")

\* C2: a run with a valid signature whose isRevoked call returned true ends
\* with the outcome 'revoked' whatever getController produced, its last step
\* is (Revocation Status, failure), and it does not set 'valid' afterwards.
C2_RevocationAuthoritative ==
    \A r \in Slots : (runs[r].sig.valid /\ runs[r].ir = Resolved("true")) =>
        /\ Done(r)
        /\ runs[r].wrote = "revoked"
        /\ LastStep(runs[r].verificationSteps).name = "Revocation Status"
        /\ LastStep(runs[r].verificationSteps).status = "failure"
        /\ writer = r => status = "revoked" /\ steps = runs[r].verificationSteps

\* C2 witness: a revoked credential whose controller lookup was rejected.
C2_Witness ==
    \E r \in Slots : /\ runs[r].sig.valid
                      /\ runs[r].ir = Resolved("true")
                      /\ runs[r].gc.kind = "rejected"
                      /\ writer = r

\* The outcome a finished run must have, from the signature result and the
\* revocation lookup alone.
OutcomeWithoutController(sig, ir) ==
    IF ~sig.valid THEN "invalid"
    ELSE IF ir = Resolved("true") THEN "revoked"
    ELSE "valid"

\* C3: the outcome of a finished run is fixed by the signature result and
\* the revocation-lookup result; the result of getController (match,
\* mismatch or rejection) does not change it.
C3_ControllerAdvisory ==
    \A r \in Slots : (Done(r) /\ runs[r].parseOk) =>
        /\ runs[r].wrote = OutcomeWithoutController(runs[r].sig, runs[r].ir)
        /\ writer = r => status = runs[r].wrote

\* C3 witness: controller resolution failed, the credential is not revoked,
\* and the outcome is 'valid'.
C3_Witness ==
    \E r \in Slots : /\ Done(r)
                      /\ runs[r].gc.kind = "rejected"
                      /\ runs[r].ir = Resolved("false")
                      /\ writer = r
                      /\ status = "valid"

\* C4: a run on a text that does not parse ends with the outcome 'error',
\* the step log is exactly the single Parse JSON failure step (replacing
\* whatever was displayed), isLoading is false, and nothing was called.
C4_ParseFailureHalts ==
    \A r \in Slots : (Started(r) /\ ~runs[r].parseOk) =>
        /\ Done(r)
        /\ runs[r].wrote = "error"
        /\ runs[r].calls = <<>>
        /\ writer = r =>
              /\ status = "error"
              /\ steps = <<Step("Parse JSON", "failure", <<"Input is not valid JSON.">>)>>
              /\ ~isLoading

\* C4 witness: the failed run was started while the three steps of an
\* earlier run were displayed.
C4_Witness ==
    \E r \in Slots : /\ Started(r)
                      /\ ~runs[r].parseOk
                      /\ runs[r].prior = 3
                      /\ writer = r

\* C5: once the input was edited while a run was suspended at a network
\* call, that run's results are not applied: the outcome stays 'idle' and
\* the step log stays empty until a new run is started.
C5_StaleResultsSuppressed ==
    \A r \in Slots : runs[r].abandoned => status = "idle" /\ steps = <<>>

\* C6: at most one run is in flight; isLoading is true exactly while a run
\* is in flight, also after an edit; a run can start only when isLoading is
\* false and the input is non-empty; while a run is in flight no other run
\* has written the step log.
C6_SingleActiveRun ==
    /\ Cardinality({r \in Slots : InFlight(r)}) <= 1
    /\ isLoading <=> \E r \in Slots : InFlight(r)
    /\ \A r \in Slots : InFlight(r) => writer \in {0, r}
    /\ (ENABLED Verify) => ~isLoading /\ vcInput # ""

\* C6 witness: the input was edited while a run is in flight, and isLoading
\* is still true.
C6_Witness ==
    \E r \in Slots : InFlight(r) /\ runs[r].abandoned /\ isLoading /\ status = "idle"

Terminal == {"valid", "invalid", "revoked", "error"}

IsStep(st, n, s) == st.name = n /\ st.status = s

\* C7: in every state with a terminal outcome the outcome is determined by
\* the step log: 'error' iff the log is [Parse JSON: failure]; 'invalid' iff
\* it is [Cryptographic Signature: failure]; 'revoked' iff it has three steps
\* ending in Revocation Status: failure; 'valid' iff it has three steps with
\* Cryptographic Signature: success and no later step failure or pending.
C7_OutcomeFromSteps ==
    status \in Terminal =>
        /\ status = "error" <=>
              (Len(steps) = 1 /\ IsStep(steps[1], "Parse JSON", "failure"))
        /\ status = "invalid" <=>
              (Len(steps) = 1 /\ IsStep(steps[1], "Cryptographic Signature", "failure"))
        /\ status = "revoked" <=>
              (Len(steps) = 3 /\ IsStep(steps[3], "Revocation Status", "failure"))
        /\ status = "valid" <=>
              (/\ Len(steps) = 3
               /\ IsStep(steps[1], "Cryptographic Signature", "success")
               /\ steps[2].status \notin {"failure", "pending"}
               /\ steps[3].status \notin {"failure", "pending"})

\* C7 witness: the outcome 'valid' with both registry steps inconclusive.
C7_Witness ==
    /\ status = "valid"
    /\ Len(steps) = 3
    /\ steps[2].status = "warning"
    /\ steps[3].status = "warning"

\* A rejected registry call changes only the step of its own stage.
RejectionsOnlyWarn ==
    \A r \in Slots :
        /\ runs[r].gc.kind = "rejected" =>
              /\ runs[r].verificationSteps[1] = SignatureStep(runs[r].sig)
              /\ IsStep(runs[r].verificationSteps[2], "Issuer DID Control", "warning")
        /\ runs[r].ir.kind = "rejected" =>
              /\ runs[r].verificationSteps[1] = SignatureStep(runs[r].sig)
              /\ runs[r].verificationSteps[2] = ControllerStep(runs[r].gc, runs[r].sig)
              /\ IsStep(runs[r].verificationSteps[3], "Revocation Status", "warning")
              /\ runs[r].wrote = "valid"

\* The run in slot r has just ended with a terminal outcome.
EndedValidOrRevoked(r) ==
    /\ Done(r)
    /\ writer = r
    /\ status \in {"valid", "revoked"}
    /\ status = runs[r].wrote
    /\ ~isLoading

\* C8: when the registry calls settle (resolve or reject), a run that passed
\* the signature step reaches the outcome 'valid' or 'revoked' with
\* isLoading false, and a rejected call only turns its own step into a
\* warning.
C8_NetworkFaultsContained ==
    /\ []RejectionsOnlyWarn
    /\ \A r \in Slots : InFlight(r) ~> EndedValidOrRevoked(r)

\* C8 witness: a run in which both registry calls were rejected has ended.
C8_Witness ==
    \E r \in Slots : /\ runs[r].gc.kind = "rejected"
                      /\ runs[r].ir.kind = "rejected"
                      /\ EndedValidOrRevoked(r)

\* The revocation step of run r could not obtain an answer.
NoRevocationAnswer(r) ==
    Done(r) /\ runs[r].sig.valid /\ (runs[r].ir.kind = "rejected" \/ runs[r].threw # "")

\* C9: when the signature is valid and the revocation step obtains no
\* answer (isRevoked rejects, or canonicalizeVC or computeCredentialHash
\* throws), the Revocation Status step is 'warning' and the outcome is
\* 'valid'; when a helper throws, isRevoked is not called.
C9_RevocationFailOpen ==
    \A r \in Slots : NoRevocationAnswer(r) =>
        /\ IsStep(LastStep(runs[r].verificationSteps), "Revocation Status", "warning")
        /\ runs[r].wrote = "valid"
        /\ writer = r => status = "valid" /\ steps = runs[r].verificationSteps /\ ~isLoading
        /\ runs[r].threw # "" => ~Called(r, "isRevoked") /\ runs[r].ir = NoResult

\* C9 witness: canonicalizeVC threw and the run ended 'valid'.
C9_Witness ==
    \E r \in Slots : /\ NoRevocationAnswer(r)
                      /\ runs[r].threw = "canonicalizeVC"
                      /\ writer = r
                      /\ status = "valid"

\* C10: every failure of the signature stage, also on a parsed input that
\* is no credential object, yields the step (Cryptographic Signature,
\* failure) and the outcome 'invalid' with isLoading false; no state shows
\* 'verifying' with isLoading true and no run in flight.
C10_SignatureFailuresAreValues ==
    /\ \A r \in Slots : SignatureRejected(r) =>
          /\ Done(r)
          /\ runs[r].wrote = "invalid"
          /\ writer = r =>
                /\ status = "invalid"
                /\ Len(steps) = 1
                /\ IsStep(steps[1], "Cryptographic Signature", "failure")
                /\ ~isLoading
    /\ (isLoading \/ status = "verifying") => \E r \in Slots : InFlight(r)

\* C10 witness: the text "null" was verified and the run ended 'invalid'.
C10_Witness ==
    \E r \in Slots : /\ SignatureRejected(r)
                      /\ runs[r].parsedVc = Null
                      /\ writer = r
                      /\ status = "invalid"
                      /\ ~isLoading

\* C11: the key passed to isRevoked does not depend on the proof: any two
\* lookups made for credentials that differ only in their proof carry the
\* same key, the key is the one computed from the proof-stripped credential,
\* and the parsed credential still holds its proof after the stripping.
C11_LookupKeyProofIndependent ==
    /\ \A a \in lookups : \A b \in lookups : a.key = b.key
    /\ \A r \in Slots : Called(r, "isRevoked") =>
          /\ \E l \in lookups : l.key = runs[r].hash /\ l.proof = runs[r].parsedVc.proof
          /\ runs[r].parsedVc.proof \in Proofs
          /\ (InFlight(r) /\ ~runs[r].abandoned) =>
                runs[r].parsedVc = JSONParse(vcInput).value /\ vc = runs[r].parsedVc

\* C11 witness: isRevoked was called for two credentials that differ only in
\* their proof.
C11_Witness ==
    \E a \in lookups : \E b \in lookups : a.proof # b.proof

\* C12: whenever the outcome is 'valid', the stored credential vc is not
\* null and is the credential parsed from the current input text.
C12_DetailsReadableOnValid ==
    status = "valid" =>
        /\ vc # Null
        /\ JSONParse(vcInput).ok
        /\ vc = JSONParse(vcInput).value

NamesOf(sq) == [i \in 1..Len(sq) |-> sq[i].name]

IsPrefix(a, b) == Len(a) <= Len(b) /\ \A i \in 1..Len(a) : a[i] = b[i]

PipelineNames == <<"Cryptographic Signature", "Issuer DID Control", "Revocation Status">>

CallOrder ==
    <<"verifyVCSignature", "getController", "canonicalizeVC", "computeCredentialHash",
      "isRevoked">>

\* The order of calls and steps in one state.
OrderedSoFar ==
    /\ IsPrefix(NamesOf(steps), PipelineNames) \/ NamesOf(steps) = <<"Parse JSON">>
    /\ \A r \in Slots :
          /\ IsPrefix(runs[r].calls, CallOrder)
          /\ IsPrefix(NamesOf(runs[r].verificationSteps), PipelineNames)
          /\ Called(r, "isRevoked") =>
                /\ runs[r].gc.kind \in {"resolved", "rejected"}
                /\ runs[r].verificationSteps[2].status \in {"success", "warning"}

\* A step of a run in flight only appends to its log and to the published log.
AppendOnly ==
    \A r \in Slots : InFlight(r) =>
        /\ IsPrefix(NamesOf(runs[r].verificationSteps), NamesOf(runs'[r].verificationSteps))
        /\ (writer' = r /\ runs'[r] # runs[r]) => IsPrefix(NamesOf(steps), NamesOf(steps'))

\* C13: within a run the signature check precedes the getController call
\* and isRevoked is called only after getController settled and the Issuer
\* DID Control step was set to success or warning; every published step log
\* is a prefix of [Cryptographic Signature, Issuer DID Control, Revocation
\* Status] or exactly [Parse JSON]; a run only appends steps.
C13_FixedOrder == []OrderedSoFar /\ [][AppendOnly]_vars

\* C13 witness: a run made all its calls and published all three steps.
C13_Witness ==
    \E r \in Slots : /\ Done(r)
                      /\ runs[r].calls = CallOrder
                      /\ writer = r
                      /\ NamesOf(steps) = PipelineNames

\* The stage whose registry call is outstanding in run r.
StageOf(r) == IF runs[r].pc = "awaitGC" THEN "Issuer DID Control" ELSE "Revocation Status"

Settled == {"success", "warning", "failure"}

\* C14: while a registry call of the current run (one the input was not
\* edited under) is outstanding, the published log ends with that stage's
\* step in status 'pending'; once the call has completed the step at the
\* same position, with the same name, is success, warning or failure; and
\* with a terminal outcome no published step is 'pending'.
C14_PendingPlaceholders ==
    /\ \A r \in Slots : (InFlight(r) /\ ~runs[r].abandoned) =>
          /\ steps = runs[r].verificationSteps
          /\ IsStep(LastStep(steps), StageOf(r), "pending")
          /\ \A i \in 1..(Len(steps) - 1) : steps[i].status # "pending"
    /\ \A r \in Slots : (runs[r].pc \in {"awaitIR", "done"} /\ runs[r].sig.valid) =>
          /\ runs[r].verificationSteps[2].name = "Issuer DID Control"
          /\ runs[r].verificationSteps[2].status \in Settled
    /\ \A r \in Slots : (Done(r) /\ runs[r].sig.valid) =>
          /\ runs[r].verificationSteps[3].name = "Revocation Status"
          /\ runs[r].verificationSteps[3].status \in Settled
    /\ status \in Terminal => \A i \in 1..Len(steps) : steps[i].status # "pending"

\* C14 witness: isRevoked is outstanding and the log ends with the pending
\* Revocation Status step.
C14_Witness ==
    \E r \in Slots : /\ runs[r].pc = "awaitIR"
                      /\ ~runs[r].abandoned
                      /\ Len(steps) = 3
                      /\ IsStep(steps[3], "Revocation Status", "pending")

\* Two identities that are equal up to letter case.
SameIgnoringCase(a, b) == a = b \/ {a, b} = {"0xAB", "0xab"}

\* C15: after getController completed, the Issuer DID Control step is
\* 'success' iff the call resolved to an identity equal, ignoring letter
\* case, to the recovered signer identity; otherwise (different identity,
\* absent signer identity, rejected call) it is 'warning'; never 'failure'.
C15_ControllerStepStatus ==
    \A r \in Slots : runs[r].gc # NoResult =>
        LET st == runs[r].verificationSteps[2]
            signer == runs[r].sig.recoveredAddress
            matches == /\ runs[r].gc.kind = "resolved"
                       /\ signer # Undefined
                       /\ SameIgnoringCase(runs[r].gc.value, signer)
        IN  /\ st.name = "Issuer DID Control"
            /\ st.status = "success" <=> matches
            /\ st.status = "warning" <=> ~matches
            /\ (writer = r /\ Len(steps) >= 2) => steps[2] = st

\* C15 witness: the registry returned the signer identity in another letter
\* case and the step is 'success'.
C15_Witness ==
    \E r \in Slots : /\ runs[r].gc = Resolved("0xab")
                      /\ runs[r].sig.recoveredAddress = "0xAB"
                      /\ writer = r
                      /\ IsStep(steps[2], "Issuer DID Control", "success")

\* C16: the outcome 'verifying' implies that isLoading is true, that a run
\* is in flight and that no run can be started; isLoading false implies the
\* outcome is idle, valid, invalid, revoked or error.
C16_VerifyingImpliesLoading ==
    /\ status = "verifying" =>
          /\ isLoading
          /\ \E r \in Slots : InFlight(r)
          /\ ~ENABLED Verify
    /\ ~isLoading => status \in ({"idle"} \cup Terminal)

\* C16 witness: a run is suspended at getController and the outcome is
\* 'verifying'.
C16_Witness ==
    \E r \in Slots : runs[r].pc = "awaitGC" /\ status = "verifying" /\ isLoading

\* C17: whenever the outcome is 'idle' the step log is empty and the stored
\* credential is null.
C17_IdleIsEmpty ==
    status = "idle" => steps = <<>> /\ vc = Null

\* A finished result is displayed and the Verify button is enabled.
Settling == status \in Terminal /\ ~isLoading

\* C18: once a run has reached a terminal outcome and isLoading is false,
\* no run is in flight, and the outcome and the step log change only by a
\* new run or an edit of the input.
C18_TerminalResultStable ==
    /\ [](Settling => \A r \in Slots : ~InFlight(r))
    /\ [][Settling => (UNCHANGED <<status, steps>> \/ Edit \/ Verify)]_vars

\* C18 witness: a run that the input was edited under has ended, its result
\* is displayed and isLoading is false.
C18_Witness ==
    \E r \in Slots : Done(r) /\ runs[r].abandoned /\ writer = r /\ Settling

====
